---- MODULE Spec2Model ----
(***************************************************************************)
(* A model of tias (src/tias): the persisted registry of languages,        *)
(* aliases and jargon kept in a sqlite file, the in-memory copies held by  *)
(* one interactive session, and the command interpreter parse_choice.      *)
(*                                                                         *)
(* Python strings are TLA+ strings; Python lists are sequences; a sqlite   *)
(* table with a UNIQUE column is a set of rows (languages) or a function   *)
(* from the unique column to the rest of the row (aliases, jargon).        *)
(* Every `with sqlite3.connect(...) as conn:` block is one transaction: it *)
(* commits when the block ends and rolls back when the block raises.       *)
(***************************************************************************)
EXTENDS Integers, Sequences, FiniteSets, TLC

VARIABLES
    session,        \* position of amain: "off", "aliases", "languages", "prompt", "done"
    aliases,        \* amain's `aliases` dict (alias -> language)
    languages,      \* amain's `languages` list
    dbTables,       \* names of the tables that exist in tias.db
    dbAliases,      \* rows of table aliases: alias -> language
    dbLanguages,    \* rows of table languages: the set of language values
    dbJargon,       \* rows of table jargon: language -> [jargon_text, jargon_key]
    tioLanguages,   \* what the collaborator's get_languages() reports now
    listRequests,   \* how many times tio.get_languages() has been called on this store
    last            \* what the step just taken did (history)

vars == <<session, aliases, languages, dbTables, dbAliases, dbLanguages,
          dbJargon, tioLanguages, listRequests, last>>

----------------------------------------------------------------------------
(* Bounds of the model.                                                    *)

\* tio.get_languages() is called at most this many times in one behaviour.
MaxListRequests == 3

----------------------------------------------------------------------------
(* Python str and list operations.                                         *)

Range(f) == {f[i] : i \in DOMAIN f}

\* s[i:] counted from 1
Drop(s, n) == SubSeq(s, n + 1, Len(s))

\* s.startswith(p)
StartsWith(s, p) == Len(p) <= Len(s) /\ SubSeq(s, 1, Len(p)) = p

\* s.endswith(p)
EndsWith(s, p) == Len(p) <= Len(s) /\ SubSeq(s, Len(s) - Len(p) + 1, Len(s)) = p

\* s.find(sub): the first position (from 1) where sub occurs in s, 0 if none
Find(s, sub) ==
    LET hits == {i \in 1..(Len(s) - Len(sub) + 1) : SubSeq(s, i, i + Len(sub) - 1) = sub}
    IN  IF hits = {} THEN 0 ELSE CHOOSE i \in hits : \A j \in hits : i <= j

\* sub in s
Contains(s, sub) == Find(s, sub) # 0

\* s.replace(old, new) for a non-empty old: every occurrence, left to right
RECURSIVE Replace(_, _, _)
Replace(s, old, new) ==
    LET i == Find(s, old)
    IN  IF i = 0 THEN s
        ELSE SubSeq(s, 1, i - 1) \o new \o Replace(Drop(s, i + Len(old) - 1), old, new)

\* s.strip(): without the blanks, tabs and newlines at both ends
Whitespace == {" ", "\t", "\n"}

RECURSIVE LStrip(_)
LStrip(s) ==
    IF s # "" /\ SubSeq(s, 1, 1) \in Whitespace THEN LStrip(Drop(s, 1)) ELSE s

RECURSIVE RStrip(_)
RStrip(s) ==
    IF s # "" /\ SubSeq(s, Len(s), Len(s)) \in Whitespace
    THEN RStrip(SubSeq(s, 1, Len(s) - 1)) ELSE s

Strip(s) == LStrip(RStrip(s))

\* s.lower(), for the letters A to Z
RECURSIVE Lower(_)
Lower(s) ==
    IF s = "" THEN ""
    ELSE LET ch == SubSeq(s, 1, 1)
             i == Find("ABCDEFGHIJKLMNOPQRSTUVWXYZ", ch)
         IN  (IF i = 0 THEN ch ELSE SubSeq("abcdefghijklmnopqrstuvwxyz", i, i))
             \o Lower(Drop(s, 1))

\* list.remove(x): drops the first occurrence of x
Remove(list, x) ==
    LET i == CHOOSE i \in 1..Len(list) : list[i] = x /\ \A j \in 1..(i - 1) : list[j] # x
    IN  SubSeq(list, 1, i - 1) \o SubSeq(list, i + 1, Len(list))

\* the rows of a result set as a Python list, in the order sqlite returns them
RECURSIVE Rows(_)
Rows(S) ==
    IF S = {} THEN <<>>
    ELSE LET x == CHOOSE x \in S : TRUE IN <<x>> \o Rows(S \ {x})

\* dict with one key set / one key deleted
Put(d, k, v) == [x \in DOMAIN d \cup {k} |-> IF x = k THEN v ELSE d[x]]
Del(d, k) == [x \in DOMAIN d \ {k} |-> d[x]]

EmptyDict == [x \in {} |-> ""]

----------------------------------------------------------------------------
(* Seed data.                                                              *)

\* create_aliases_table: default_aliases
default_aliases ==
    [a \in {"c", "c#", "c++", "cpp", "cs", "f#", "fs", "java", "javascript",
            "js", "objective-c", "py", "python", "swift"} |->
        CASE a = "c" -> "c-clang"
          [] a \in {"c#", "cs"} -> "cs-csc"
          [] a \in {"c++", "cpp"} -> "cpp-clang"
          [] a \in {"f#", "fs"} -> "fs-core"
          [] a = "java" -> "java-openjdk"
          [] a \in {"javascript", "js"} -> "javascript-node"
          [] a = "objective-c" -> "objective-c-clang"
          [] a \in {"py", "python"} -> "python3"
          [] a = "swift" -> "swift4"]

\* get_default_jargon: the ten templates, as dedent leaves them
\* (`}\` ends the last line, so the 16 blanks before the closing quotes stay).
\* A TLA+ string cannot hold the grave accent: in every string of this model
\* the character ~ stands for it, and no modelled text holds a ~ of its own.
GRAVE == "~"

CJargon ==
    [jargon_text |-> "#include <stdbool.h>\n#include <stdio.h>\n\nint main(void) {\n    INSERT_HERE\n}                ",
     jargon_key |-> "int main("]

CppJargon ==
    [jargon_text |-> "#include <iostream>\n#include <stdio.h>\nusing namespace std;\n\nint main() {\n    INSERT_HERE\n}                ",
     jargon_key |-> "int main("]

CsJargon ==
    [jargon_text |-> "namespace MyNamespace {\n    class MyClass {\n        static void Main(string[] args) {\n            INSERT_HERE\n        }\n    }\n}                ",
     jargon_key |-> "static void Main("]

DartJargon ==
    [jargon_text |-> "void main() {\n    INSERT_HERE\n}                ",
     jargon_key |-> "void main("]

GoJargon ==
    [jargon_text |-> "package main\nimport \"fmt\"\n\nfunc main() {\n    INSERT_HERE\n}                ",
     jargon_key |-> "func main("]

JavaJargon ==
    [jargon_text |-> "import java.util.*;\n\nclass MyClass {\n    public static void main(String[] args) {\n        Scanner scanner = new Scanner(System.in);\n        INSERT_HERE\n    }\n}                ",
     jargon_key |-> "public static void main("]

KotlinJargon ==
    [jargon_text |-> "fun main(args : Array<String>) {\n    INSERT_HERE\n}                ",
     jargon_key |-> "fun main("]

ObjectiveCJargon ==
    [jargon_text |-> "#include <stdio.h>\n// Print with the ~puts~ function, not ~NSLog~.\n\nint main() {\n    INSERT_HERE\n}                ",
     jargon_key |-> "int main("]

\* Mutant of RustJargon: the key is not a part of the jargon.
RustJargon_foreign_key ==
    [jargon_text |-> "fn main() {\n    INSERT_HERE\n}                ",
     jargon_key |-> "pub fn run("]

RustJargon ==
    [jargon_text |-> "fn main() {\n    INSERT_HERE\n}                ",
     jargon_key |-> "fn main("]

ScalaJargon ==
    [jargon_text |-> "object Main extends App {\n    INSERT_HERE\n}                ",
     jargon_key |-> "object Main"]

\* get_default_jargon: the dictionary with the dialects sharing a template
get_default_jargon ==
    [l \in {"c", "cpp", "cs", "dart", "go", "java", "kotlin", "objective-c",
            "rust", "scala", "c-clang", "c-gcc", "c-tcc", "c#", "c++",
            "cpp-clang", "cpp-gcc", "cs-core", "cs-csc", "cs-csi",
            "cs-mono-shell", "cs-mono", "java-jdk", "java-openjdk",
            "objective-c-clang", "objective-c-gcc"} |->
        CASE l \in {"c", "c-clang", "c-gcc", "c-tcc"} -> CJargon
          [] l \in {"cpp", "c++", "cpp-clang", "cpp-gcc"} -> CppJargon
          [] l \in {"cs", "c#", "cs-core", "cs-csc", "cs-csi", "cs-mono-shell",
                    "cs-mono"} -> CsJargon
          [] l = "dart" -> DartJargon
          [] l = "go" -> GoJargon
          [] l \in {"java", "java-jdk", "java-openjdk"} -> JavaJargon
          [] l = "kotlin" -> KotlinJargon
          [] l \in {"objective-c", "objective-c-clang", "objective-c-gcc"} ->
                ObjectiveCJargon
          [] l = "rust" -> RustJargon
          [] l = "scala" -> ScalaJargon]

----------------------------------------------------------------------------
(* The environment: the execution collaborator and the user.               *)

\* Languages the collaborator always reports. They include the target of
\* every default alias, and none of them is a default alias name.
BaseLanguages ==
    {"c-clang", "c-gcc", "cpp-clang", "cs-csc", "fs-core", "java-openjdk",
     "javascript-node", "objective-c-clang", "python3", "rust", "swift4"}

\* A language the collaborator may add to, or drop from, its list over time.
ExtraLanguages == {"zz"}

BackendLists == {BaseLanguages \cup X : X \in SUBSET ExtraLanguages}

\* What the user types after run, jargon, alias, ...
TypedIds == {"c", "c-clang", "zz", "nope"}

\* What the user types as the new name in create alias / delete alias
TypedAliasNames == {"c", "zz", "python3"}

\* What the user types as the language in create alias
TypedTargets == {"c", "python3", "zz", "nope"}

\* What the user submits as code to run
TypedCode ==
    {"", "x();", "ENTRY() { x(); }", "~~~\nint main() { x(); }\n~~~1 2"}

\* What the user types to list languages
TypedLists == {"list", "ls zz", "list c", "list list c"}

\* What the user types that is no command with an argument
TypedOthers == {"help", "", "Run", "lst c"}

\* What the user answers to a (y/n) question
TypedAnswers == {"y", "yes", "n", " Y"}

----------------------------------------------------------------------------
(* History: what the last step did.                                        *)

Event(ev, a, b, c) == [ev |-> ev, a |-> a, b |-> b, c |-> c]

\* What list prints: the count of the heading, the entries, the note on aliases
Printed(count, entries, note) == [count |-> count, entries |-> entries, note |-> note]

\* `after` names the alias that the command entered just before deleted, if any;
\* `out` is what list printed
Did(cmd, args, status, msg, events) ==
    [cmd |-> cmd, args |-> args, status |-> status, msg |-> msg, events |-> events,
     after |-> "", out |-> Printed(0, <<>>, FALSE)]

Idle == Did("", <<>>, "", "", <<>>)

----------------------------------------------------------------------------
(* amain: start of a session.                                              *)

Init ==
    /\ session = "off"
    /\ aliases = EmptyDict
    /\ languages = <<>>
    /\ dbTables = {}
    /\ dbAliases = EmptyDict
    /\ dbLanguages = {}
    /\ dbJargon = [x \in {} |-> CJargon]
    /\ tioLanguages \in BackendLists
    /\ listRequests = 0
    /\ last = Idle

\* The process ends: an uncaught exception, sys.exit or a keyboard interrupt.
\* The in-memory copies are gone; the store keeps what was committed.
ProcessEnds ==
    /\ session' = "off"
    /\ aliases' = EmptyDict
    /\ languages' = <<>>

\* Mutant of load_aliases: an empty table is seeded again like a missing one.
load_aliases_reseeds ==
    /\ session = "off"
    /\ session' = "aliases"
    /\ IF "aliases" \in dbTables /\ DOMAIN dbAliases # {}
       THEN /\ aliases' = dbAliases
            /\ UNCHANGED <<dbTables, dbAliases>>
            /\ last' = Did("load_aliases", <<>>, "ok", "", <<>>)
       ELSE /\ aliases' = default_aliases
            /\ dbTables' = dbTables \cup {"aliases"}
            /\ dbAliases' = default_aliases
            /\ last' = Did("load_aliases", <<>>, "ok", "",
                           <<Event("create_table", "aliases", "", "")>>)
    /\ UNCHANGED <<languages, dbLanguages, dbJargon, tioLanguages, listRequests>>

\* load_aliases, with create_aliases_table when the SELECT raises
load_aliases ==
    /\ session = "off"
    /\ session' = "aliases"
    /\ IF "aliases" \in dbTables
       THEN /\ aliases' = dbAliases
            /\ UNCHANGED <<dbTables, dbAliases>>
            /\ last' = Did("load_aliases", <<>>, "ok", "", <<>>)
       ELSE /\ aliases' = default_aliases
            /\ dbTables' = dbTables \cup {"aliases"}
            /\ dbAliases' = default_aliases
            /\ last' = Did("load_aliases", <<>>, "ok", "",
                           <<Event("create_table", "aliases", "", "")>>)
    /\ UNCHANGED <<languages, dbLanguages, dbJargon, tioLanguages, listRequests>>

\* _save_languages: INSERT OR IGNORE of every element
save_languages(rows, list) == rows \cup Range(list)

\* Mutant of create_languages_table: the alias names are not added to the list.
create_languages_table_no_aliases ==
    LET list == Rows(tioLanguages)
    IN  /\ languages' = list
        /\ dbTables' = dbTables \cup {"languages"}
        /\ dbLanguages' = save_languages({}, list)

\* Mutant of create_languages_table: the table is created, the rows are not saved.
create_languages_table_unsaved ==
    LET list == Rows(tioLanguages) \o Rows(DOMAIN aliases)
    IN  /\ languages' = list
        /\ dbTables' = dbTables \cup {"languages"}
        /\ dbLanguages' = {}

\* create_languages_table, after tio.get_languages() returned
create_languages_table ==
    LET list == Rows(tioLanguages) \o Rows(DOMAIN aliases)
    IN  /\ languages' = list
        /\ dbTables' = dbTables \cup {"languages"}
        /\ dbLanguages' = save_languages({}, list)

\* Mutant of load_languages: the collaborator is asked at every start.
load_languages_requeries ==
    /\ session = "aliases"
    /\ session' = "languages"
    /\ listRequests < MaxListRequests
    /\ listRequests' = listRequests + 1
    /\ languages' = Rows(tioLanguages) \o Rows(DOMAIN aliases)
    /\ dbTables' = dbTables \cup {"languages"}
    /\ dbLanguages' = save_languages(dbLanguages, languages')
    /\ last' = Did("load_languages", <<>>, "ok", "",
                   <<Event("get_languages", "", "", "")>>)
    /\ UNCHANGED <<aliases, dbAliases, dbJargon, tioLanguages>>

\* load_languages, with create_languages_table when the SELECT raises
load_languages ==
    /\ session = "aliases"
    /\ IF "languages" \in dbTables
       THEN /\ languages' = Rows(dbLanguages)
            /\ session' = "languages"
            /\ last' = Did("load_languages", <<>>, "ok", "", <<>>)
            /\ UNCHANGED <<aliases, dbTables, dbLanguages, listRequests>>
       ELSE /\ listRequests < MaxListRequests
            /\ listRequests' = listRequests + 1
            /\ \/ /\ create_languages_table
                  /\ session' = "languages"
                  /\ last' = Did("load_languages", <<>>, "ok", "",
                                 <<Event("get_languages", "", "", ""),
                                   Event("create_table", "languages", "", "")>>)
                  /\ UNCHANGED aliases
               \/ /\ ProcessEnds
                  /\ last' = Did("load_languages", <<>>, "crash", "tio",
                                 <<Event("get_languages", "", "", "")>>)
                  /\ UNCHANGED <<dbTables, dbLanguages>>
    /\ UNCHANGED <<dbAliases, dbJargon, tioLanguages>>

\* Mutant of init_jargon: the default jargon is saved at every start (INSERT OR
\* IGNORE brings back the default entries that are gone).
init_jargon_reseeds ==
    /\ session = "languages"
    /\ session' = "prompt"
    /\ dbTables' = dbTables \cup {"jargon"}
    /\ dbJargon' = [l \in DOMAIN dbJargon \cup DOMAIN get_default_jargon |->
                       IF l \in DOMAIN dbJargon THEN dbJargon[l]
                       ELSE get_default_jargon[l]]
    /\ last' = Did("init_jargon", <<>>, "ok", "",
                   IF "jargon" \in dbTables THEN <<>>
                   ELSE <<Event("create_table", "jargon", "", "")>>)
    /\ UNCHANGED <<aliases, languages, dbAliases, dbLanguages, tioLanguages,
                   listRequests>>

\* init_jargon, with create_jargon_table when the table is not in sqlite_master
init_jargon ==
    /\ session = "languages"
    /\ session' = "prompt"
    /\ IF "jargon" \in dbTables
       THEN /\ UNCHANGED <<dbTables, dbJargon>>
            /\ last' = Did("init_jargon", <<>>, "ok", "", <<>>)
       ELSE /\ dbTables' = dbTables \cup {"jargon"}
            /\ dbJargon' = get_default_jargon
            /\ last' = Did("init_jargon", <<>>, "ok", "",
                           <<Event("create_table", "jargon", "", "")>>)
    /\ UNCHANGED <<aliases, languages, dbAliases, dbLanguages, tioLanguages,
                   listRequests>>

----------------------------------------------------------------------------
(* The jargon engine (jargon.py).                                          *)

INSERT_HERE == "INSERT_HERE"

\* Mutant of load_jargon: the two columns are returned in the other order.
load_jargon_swapped(language, jargon) ==
    IF language \in DOMAIN jargon
    THEN <<jargon[language].jargon_key, jargon[language].jargon_text>>
    ELSE <<"", "">>

\* load_jargon: the row's (jargon_text, jargon_key), or ("", "") without a row
load_jargon(language, jargon) ==
    IF language \in DOMAIN jargon
    THEN <<jargon[language].jargon_text, jargon[language].jargon_key>>
    ELSE <<"", "">>

\* Mutant of load_jargon_call: without the table, no row is found.
load_jargon_call_quiet(language, tables, jargon) ==
    [raised |-> "",
     value |-> IF "jargon" \in tables THEN load_jargon(language, jargon)
               ELSE <<"", "">>]

\* A call of load_jargon on a store with the tables `tables`: the SELECT raises
\* sqlite3.OperationalError when there is no table jargon, and nothing catches it
load_jargon_call(language, tables, jargon) ==
    IF "jargon" \notin tables
    THEN [raised |-> "sqlite3.OperationalError", value |-> <<"", "">>]
    ELSE [raised |-> "", value |-> load_jargon(language, jargon)]

\* has_jargon
has_jargon(language, jargon) == language \in DOMAIN jargon

\* Mutant of wrap_jargon: the jargon key is not looked for in the code.
wrap_jargon_ignores_key(expression, language, jargon) ==
    LET j == load_jargon(language, jargon)
    IN  IF j[1] = "" THEN expression
        ELSE Replace(j[1], INSERT_HERE, expression)

\* wrap_jargon
wrap_jargon(expression, language, jargon) ==
    LET j == load_jargon(language, jargon)
    IN  IF j[1] = "" THEN expression
        ELSE IF ~Contains(expression, j[2])
             THEN Replace(j[1], INSERT_HERE, expression)
             ELSE expression

\* the triple grave accent that fences a code block
FENCE == GRAVE \o GRAVE \o GRAVE

\* Mutant of unwrap_code_block: the newline that ends the code is kept.
unwrap_code_block_keeps_newline(statement) ==
    IF ~StartsWith(statement, FENCE) THEN <<statement, "">>
    ELSE LET s1 == Drop(statement, 3)
             s2 == IF StartsWith(s1, "\n") THEN Drop(s1, 1) ELSE s1
             i == Find(s2, FENCE)
         IN  <<IF i # 0 THEN SubSeq(s2, 1, i - 1) ELSE s2,
               IF i # 0 THEN Drop(s2, i + 2) ELSE "">>

\* unwrap_code_block: <<statement, suffix>>
unwrap_code_block(statement) ==
    IF ~StartsWith(statement, FENCE) THEN <<statement, "">>
    ELSE LET s1 == Drop(statement, 3)
             s2 == IF StartsWith(s1, "\n") THEN Drop(s1, 1) ELSE s1
             i == Find(s2, FENCE)
             body == IF i # 0 THEN SubSeq(s2, 1, i - 1) ELSE s2
             suffix == IF i # 0 THEN Drop(s2, i + 2) ELSE ""
         IN  <<IF EndsWith(body, "\n") THEN SubSeq(body, 1, Len(body) - 1) ELSE body,
               suffix>>

\* Mutant of resolve: the alias is sent to the collaborator as it was typed.
resolve_keeps(chosen_language, als) == chosen_language

\* get_code's last step: the alias is replaced by the language it stands for
resolve(chosen_language, als) ==
    IF chosen_language \in DOMAIN als THEN als[chosen_language] ELSE chosen_language

\* Mutant of get_code: the alias is resolved before the jargon is looked up.
get_code_resolves_first(chosen_language, als, jargon, lines) ==
    LET u == IF Contains(lines, FENCE) THEN unwrap_code_block(lines) ELSE <<lines, "">>
        language == IF chosen_language \in DOMAIN als
                    THEN als[chosen_language] ELSE chosen_language
        code == wrap_jargon(u[1], language, jargon)
    IN  [language |-> language, code |-> code, inputs |-> u[2],
         events |-> <<Event("get_lines", u[1], u[2], ""),
                      Event("resolve", chosen_language, language, ""),
                      Event("load_jargon", language, "", ""),
                      Event("wrap", language, code, "")>>]

\* get_code, given what get_lines() returned: the language to execute, the
\* code, the inputs, and what it did in the order it did it
get_code(chosen_language, als, jargon, lines) ==
    LET u == IF Contains(lines, FENCE) THEN unwrap_code_block(lines) ELSE <<lines, "">>
        code == wrap_jargon(u[1], chosen_language, jargon)
        language == resolve(chosen_language, als)
    IN  [language |-> language, code |-> code, inputs |-> u[2],
         events |-> <<Event("get_lines", u[1], u[2], ""),
                      Event("load_jargon", chosen_language, "", ""),
                      Event("wrap", chosen_language, code, ""),
                      Event("resolve", chosen_language, language, "")>>]

----------------------------------------------------------------------------
(* parse_choice: one action per command.                                   *)

Quoted(x) == GRAVE \o x \o GRAVE

\* parse_choice returned, or raised an InputError that amain catches
Returns == session' = "done"

\* Mutant of InputError: amain does not catch the exception.
InputError_uncaught(cmd, args, msg, events) ==
    /\ session' = "off"
    /\ aliases' = EmptyDict
    /\ languages' = <<>>
    /\ last' = Did(cmd, args, "input_error", msg, events)
    /\ UNCHANGED <<dbTables, dbAliases, dbLanguages, dbJargon, listRequests>>

\* raise InputError(msg): nothing has changed when amain catches it
InputError(cmd, args, msg, events) ==
    /\ Returns
    /\ last' = Did(cmd, args, "input_error", msg, events)
    /\ UNCHANGED <<aliases, languages, dbTables, dbAliases, dbLanguages,
                   dbJargon, listRequests>>

\* run_code's test for a changed language list
list_changed(langs, als, temp_languages) ==
    Len(langs) - Cardinality(DOMAIN als) # Len(temp_languages)

\* run_code's refresh: the local name `languages` is rebound to the new list,
\* which is saved; amain's list is not touched
refreshed_rows(rows, als, temp_languages) ==
    save_languages(rows, temp_languages \o Rows(DOMAIN als))

\* What a call of the collaborator may do: a failed request raises an
\* exception that is no InputError, so amain does not catch it
TioOutcomes == {"ok", "get_languages fails", "execute fails"}

\* Mutant of Run: the language is not looked for in the list of languages.
Run_unchecked ==
    /\ session = "prompt"
    /\ \E language \in TypedIds, lines \in TypedCode, tio \in TioOutcomes :
        LET args == <<language, lines>>
            g == get_code(language, aliases, dbJargon, lines)
            temp_languages == Rows(tioLanguages)
            changed == list_changed(languages, aliases, temp_languages)
            asked == g.events \o <<Event("get_languages", "", "", "")>>
            sent == asked \o <<Event("execute", g.language, g.code, g.inputs)>>
        IN  IF g.code = ""
            THEN InputError("run", args, "Error: no code was given to run.", g.events)
            ELSE /\ listRequests < MaxListRequests
                 /\ listRequests' = listRequests + 1
                 /\ UNCHANGED <<dbTables, dbAliases, dbJargon>>
                 /\ IF tio = "get_languages fails"
                    THEN /\ ProcessEnds
                         /\ last' = Did("run", args, "crash", "tio.get_languages", asked)
                         /\ UNCHANGED dbLanguages
                    ELSE /\ dbLanguages' = IF changed
                                           THEN refreshed_rows(dbLanguages, aliases,
                                                               temp_languages)
                                           ELSE dbLanguages
                         /\ IF tio = "ok"
                            THEN /\ Returns
                                 /\ last' = Did("run", args, "ok", "", sent)
                                 /\ UNCHANGED <<aliases, languages>>
                            ELSE /\ ProcessEnds
                                 /\ last' = Did("run", args, "crash", "tio.execute", sent)
    /\ UNCHANGED tioLanguages

\* run <language>: parse_choice, get_code and run_code
Run ==
    /\ session = "prompt"
    /\ \E language \in TypedIds, lines \in TypedCode, tio \in TioOutcomes :
        LET args == <<language, lines>>
            g == get_code(language, aliases, dbJargon, lines)
            temp_languages == Rows(tioLanguages)
            changed == list_changed(languages, aliases, temp_languages)
            asked == g.events \o <<Event("get_languages", "", "", "")>>
            sent == asked \o <<Event("execute", g.language, g.code, g.inputs)>>
        IN  IF language \notin Range(languages)
            THEN InputError("run", args, "Invalid language: " \o Quoted(language), <<>>)
            ELSE IF g.code = ""
            THEN InputError("run", args, "Error: no code was given to run.", g.events)
            ELSE /\ listRequests < MaxListRequests
                 /\ listRequests' = listRequests + 1
                 /\ UNCHANGED <<dbTables, dbAliases, dbJargon>>
                 /\ IF tio = "get_languages fails"
                    THEN /\ ProcessEnds
                         /\ last' = Did("run", args, "crash", "tio.get_languages", asked)
                         /\ UNCHANGED dbLanguages
                    ELSE /\ dbLanguages' = IF changed
                                           THEN refreshed_rows(dbLanguages, aliases,
                                                               temp_languages)
                                           ELSE dbLanguages
                         /\ IF tio = "ok"
                            THEN /\ Returns
                                 /\ last' = Did("run", args, "ok", "", sent)
                                 /\ UNCHANGED <<aliases, languages>>
                            ELSE /\ ProcessEnds
                                 /\ last' = Did("run", args, "crash", "tio.execute", sent)
    /\ UNCHANGED tioLanguages

\* What the user enters as the jargon and its key in create jargon
TypedJargon ==
    {[jargon_text |-> "HEADER\nINSERT_HERE\nFOOTER", jargon_key |-> "ENTRY("],
     [jargon_text |-> "INSERT_HERE; INSERT_HERE;", jargon_key |-> "twice"],
     [jargon_text |-> "no marker", jargon_key |-> "k"],
     [jargon_text |-> "INSERT_HERE", jargon_key |-> ""]}

\* What the user types after create jargon / delete jargon
TypedJargonIds == {"c", "zz", "nope"}

\* Mutant of create_jargon_error: a jargon without INSERT_HERE is accepted.
create_jargon_error_no_marker(entered) ==
    IF entered.jargon_key = "" THEN "The jargon key must not be empty" ELSE ""

\* create_jargon's checks of what the user entered: the error, or "" for none
create_jargon_error(entered) ==
    IF ~Contains(entered.jargon_text, INSERT_HERE)
    THEN "Error: the jargon must contain INSERT_HERE"
    ELSE IF entered.jargon_key = "" THEN "The jargon key must not be empty"
    ELSE ""

\* Mutant of delete_jargon: the DELETE has no WHERE and empties the table.
delete_jargon_all(language, jargon) == [x \in {} |-> CJargon]

\* delete_jargon: DELETE FROM jargon WHERE language = ?
delete_jargon(language, jargon) == Del(jargon, language)

\* Mutant of overwrite_cancelled: the jargon is overwritten whatever the answer.
overwrite_never_cancelled(c) == FALSE

\* c.lower().strip() not in ("y", "yes")
overwrite_cancelled(c) == Strip(Lower(c)) \notin {"y", "yes"}

\* create jargon <language>: parse_choice and create_jargon
CreateJargon ==
    /\ session = "prompt"
    /\ \E language \in TypedJargonIds, c \in TypedAnswers, entered \in TypedJargon :
        LET had == has_jargon(language, dbJargon)
            args == <<language, entered.jargon_text, entered.jargon_key>> \o
                    (IF had THEN <<c>> ELSE <<>>)
            err == create_jargon_error(entered)
            \* the old row is deleted, and that committed, before the new one is read
            cleared == IF had THEN delete_jargon(language, dbJargon) ELSE dbJargon
        IN  IF language \notin Range(languages)
            THEN InputError("create jargon", <<language>>,
                            "Invalid language: " \o Quoted(language), <<>>)
            ELSE IF had /\ overwrite_cancelled(c)
            THEN InputError("create jargon", <<language, c>>,
                            "Cancelled creating jargon.", <<>>)
            ELSE /\ Returns
                 /\ dbJargon' = IF err = "" THEN Put(cleared, language, entered)
                                ELSE cleared
                 /\ last' = Did("create jargon", args,
                                IF err = "" THEN "ok" ELSE "input_error", err,
                                IF had THEN <<Event("delete_jargon", language, "", "")>>
                                ELSE <<>>)
                 /\ UNCHANGED <<aliases, languages, dbTables, dbAliases,
                                dbLanguages, listRequests>>
    /\ UNCHANGED tioLanguages

\* delete jargon <language>
DeleteJargon ==
    /\ session = "prompt"
    /\ \E language \in TypedJargonIds :
        IF language \notin Range(languages)
        THEN InputError("delete jargon", <<language>>,
                        "Invalid language: " \o Quoted(language), <<>>)
        ELSE IF ~has_jargon(language, dbJargon)
        THEN InputError("delete jargon", <<language>>,
                        Quoted(language) \o " has no jargon", <<>>)
        ELSE /\ Returns
             /\ dbJargon' = delete_jargon(language, dbJargon)
             /\ last' = Did("delete jargon", <<language>>, "ok", "", <<>>)
             /\ UNCHANGED <<aliases, languages, dbTables, dbAliases,
                            dbLanguages, listRequests>>
    /\ UNCHANGED tioLanguages

\* c.lower().split() not in ("y", "yes"): a list is compared with two strings
\* and equals neither, whatever the answer
overwrite_refused(c) ==
    LET answer == [type |-> "list", val |-> c]
    IN  ~\E t \in {"y", "yes"} : answer.type = "str" /\ answer.val = t

\* create_alias: the in-memory copies are changed first; then one transaction
\* inserts into languages and into aliases, and an INSERT of a value that is
\* already there raises sqlite3.IntegrityError
create_alias_fails(new_alias, rows, stored) ==
    new_alias \in rows \/ new_alias \in DOMAIN stored

\* Mutant of create_alias: the row of table aliases is not inserted.
create_alias_no_row(new_alias, language) ==
    /\ aliases' = Put(aliases, new_alias, language)
    /\ languages' = Append(languages, new_alias)
    /\ dbLanguages' = dbLanguages \cup {new_alias}
    /\ dbAliases' = dbAliases

\* create_alias when both INSERTs succeed
create_alias(new_alias, language) ==
    /\ aliases' = Put(aliases, new_alias, language)
    /\ languages' = Append(languages, new_alias)
    /\ dbLanguages' = dbLanguages \cup {new_alias}
    /\ dbAliases' = Put(dbAliases, new_alias, language)

\* Mutant of alias_target: the alias is stored as the language of the new alias.
alias_target_keeps(language, als) == language

\* parse_choice: an alias given as the language is replaced by its language
alias_target(language, als) ==
    IF language \in DOMAIN als THEN als[language] ELSE language

\* create alias <new> <language>: parse_choice and create_alias
CreateAlias ==
    /\ session = "prompt"
    /\ \E new_alias \in TypedAliasNames, typed \in TypedTargets, c \in TypedAnswers :
        LET args == <<new_alias, typed>>
            language == alias_target(typed, aliases)
        IN  IF new_alias \in DOMAIN aliases /\ typed = aliases[new_alias]
            THEN InputError("create alias", args,
                            Quoted(new_alias) \o " is already an alias of " \o
                            Quoted(typed) \o ".", <<>>)
            ELSE IF new_alias \in DOMAIN aliases /\ overwrite_refused(c)
            THEN InputError("create alias", args \o <<c>>,
                            "Cancelled creating an alias.", <<>>)
            ELSE IF new_alias \notin DOMAIN aliases /\ new_alias \in Range(languages)
            THEN InputError("create alias", args,
                            Quoted(new_alias) \o " is already a language.", <<>>)
            ELSE IF typed \notin Range(languages)
            THEN InputError("create alias", args,
                            "Invalid language: " \o Quoted(typed), <<>>)
            ELSE IF create_alias_fails(new_alias, dbLanguages, dbAliases)
            THEN /\ ProcessEnds
                 /\ last' = Did("create alias", args, "crash", "sqlite3.IntegrityError",
                                <<Event("set", new_alias, language, ""),
                                  Event("append", new_alias, "", "")>>)
                 /\ UNCHANGED <<dbTables, dbAliases, dbLanguages, dbJargon, listRequests>>
            ELSE /\ Returns
                 /\ create_alias(new_alias, language)
                 /\ last' = Did("create alias", args, "ok", "",
                                <<Event("set", new_alias, language, ""),
                                  Event("append", new_alias, "", "")>>)
                 /\ UNCHANGED <<dbTables, dbJargon, listRequests>>
    /\ UNCHANGED tioLanguages

\* Mutant of delete_alias: the jargon of the alias is left in the store.
delete_alias_keeps_jargon(alias) ==
    /\ aliases' = Del(aliases, alias)
    /\ languages' = Remove(languages, alias)
    /\ dbAliases' = Del(dbAliases, alias)
    /\ dbLanguages' = dbLanguages \ {alias}
    /\ dbJargon' = dbJargon

\* Mutant of delete_alias: the rows of table aliases are deleted by language.
delete_alias_by_language(alias) ==
    /\ aliases' = Del(aliases, alias)
    /\ languages' = Remove(languages, alias)
    /\ dbAliases' = [a \in {x \in DOMAIN dbAliases : dbAliases[x] # dbAliases[alias]}
                        |-> dbAliases[a]]
    /\ dbLanguages' = dbLanguages \ {alias}
    /\ dbJargon' = Del(dbJargon, alias)

\* Mutant of delete_alias: the name stays in the in-memory list of languages.
delete_alias_keeps_language(alias) ==
    /\ aliases' = Del(aliases, alias)
    /\ languages' = languages
    /\ dbAliases' = Del(dbAliases, alias)
    /\ dbLanguages' = dbLanguages \ {alias}
    /\ dbJargon' = Del(dbJargon, alias)

\* delete_alias: the in-memory copies first, then one transaction over the
\* three tables
delete_alias(alias) ==
    /\ aliases' = Del(aliases, alias)
    /\ languages' = Remove(languages, alias)
    /\ dbAliases' = Del(dbAliases, alias)
    /\ dbLanguages' = dbLanguages \ {alias}
    /\ dbJargon' = Del(dbJargon, alias)

\* delete alias <alias>
DeleteAlias ==
    /\ session = "prompt"
    /\ \E alias \in TypedAliasNames :
        IF alias \notin DOMAIN aliases
        THEN InputError("delete alias", <<alias>>,
                        Quoted(alias) \o " is not an alias", <<>>)
        ELSE IF alias \notin Range(languages)
        THEN \* languages.remove raises ValueError after `del aliases[alias]`
             /\ ProcessEnds
             /\ last' = Did("delete alias", <<alias>>, "crash", "ValueError", <<>>)
             /\ UNCHANGED <<dbTables, dbAliases, dbLanguages, dbJargon, listRequests>>
        ELSE /\ Returns
             /\ delete_alias(alias)
             /\ last' = Did("delete alias", <<alias>>, "ok", "", <<>>)
             /\ UNCHANGED <<dbTables, listRequests>>
    /\ UNCHANGED tioLanguages

\* The characters of the names of languages and aliases, by rising code point
CodePoints == "#+-0123456789abcdefghijklmnopqrstuvwxyz"

\* s < t, as Python compares two str
RECURSIVE StrLess(_, _)
StrLess(s, t) ==
    IF t = "" THEN FALSE
    ELSE IF s = "" THEN TRUE
    ELSE LET a == Find(CodePoints, SubSeq(s, 1, 1))
             b == Find(CodePoints, SubSeq(t, 1, 1))
         IN  IF a # b THEN a < b ELSE StrLess(Drop(s, 1), Drop(t, 1))

\* Every name a list of languages can hold, in rising order
KnownNames ==
    BaseLanguages \cup ExtraLanguages \cup DOMAIN default_aliases \cup TypedAliasNames

RECURSIVE SortNames(_)
SortNames(S) ==
    IF S = {} THEN <<>>
    ELSE LET least == CHOOSE x \in S : \A y \in S \ {x} : StrLess(x, y)
         IN  <<least>> \o SortNames(S \ {least})

SortedNames == SortNames(KnownNames)

\* sorted(list), for a list of known names: the names in rising order, each as
\* often as the list holds it
RECURSIVE sorted_from(_, _)
sorted_from(list, k) ==
    IF k > Len(SortedNames) THEN <<>>
    ELSE SelectSeq(list, LAMBDA x : x = SortedNames[k]) \o sorted_from(list, k + 1)

sorted(list) == sorted_from(list, 1)

\* parse_choice: the filter keyword of list and ls
filter_keyword(choice) ==
    IF StartsWith(choice, "list ") THEN Strip(Replace(choice, "list ", ""))
    ELSE IF choice = "list" THEN ""
    ELSE IF StartsWith(choice, "ls ") THEN Strip(Replace(choice, "ls ", ""))
    ELSE ""

\* Mutant of list_languages: the aliases are not taken off the count.
list_languages_counts_all(valid_languages, als, keyword) ==
    LET filtered == IF keyword # ""
                    THEN SelectSeq(valid_languages, LAMBDA x : Contains(x, keyword))
                    ELSE valid_languages
        ordered == sorted(filtered)
    IN  Printed(Len(filtered),
                [i \in 1..Len(ordered) |->
                    [name |-> ordered[i],
                     style |-> IF ordered[i] \in DOMAIN als THEN "alias" ELSE "plain"]],
                \E i \in 1..Len(ordered) : ordered[i] \in DOMAIN als)

\* list_languages
list_languages(valid_languages, als, keyword) ==
    LET filtered == IF keyword # ""
                    THEN SelectSeq(valid_languages, LAMBDA x : Contains(x, keyword))
                    ELSE valid_languages
        lang_count == IF keyword # "" THEN Len(filtered)
                      ELSE Len(valid_languages) - Cardinality(DOMAIN als)
        ordered == sorted(filtered)
    IN  Printed(lang_count,
                [i \in 1..Len(ordered) |->
                    [name |-> ordered[i],
                     style |-> IF ordered[i] \in DOMAIN als THEN "alias" ELSE "plain"]],
                \E i \in 1..Len(ordered) : ordered[i] \in DOMAIN als)

\* list, list <keyword>, ls, ls <keyword>
List ==
    /\ session = "prompt"
    /\ \E typed \in TypedLists :
        LET choice == Strip(Lower(typed))
            keyword == filter_keyword(choice)
        IN  /\ Returns
            /\ last' = [Did("list", <<choice>>, "ok", "", <<>>) EXCEPT
                           !.out = list_languages(languages, aliases, keyword)]
    /\ UNCHANGED <<aliases, languages, dbTables, dbAliases, dbLanguages, dbJargon,
                   tioLanguages, listRequests>>

\* jargon <language>: parse_choice and print_jargon
Jargon ==
    /\ session = "prompt"
    /\ \E language \in TypedIds :
        LET loaded == load_jargon(language, dbJargon)
            shown == IF language \notin Range(languages)
                     THEN Did("jargon", <<language>>, "input_error",
                              "Invalid language: " \o Quoted(language), <<>>)
                     ELSE IF loaded[1] = ""
                     THEN Did("jargon", <<language>>, "input_error",
                              "No jargon wrapping has been set for the " \o
                              Quoted(language) \o " language", <<>>)
                     ELSE Did("jargon", <<language>>, "ok", "",
                              <<Event("print", language, loaded[1], loaded[2])>>)
        IN  /\ Returns
            /\ last' = [shown EXCEPT !.after = last.after]
    /\ UNCHANGED <<aliases, languages, dbTables, dbAliases, dbLanguages, dbJargon,
                   tioLanguages, listRequests>>

\* alias <alias>
Alias ==
    /\ session = "prompt"
    /\ \E alias \in TypedIds :
        LET shown == IF alias \notin Range(languages)
                     THEN Did("alias", <<alias>>, "input_error",
                              "Invalid language: " \o Quoted(alias), <<>>)
                     ELSE IF alias \notin DOMAIN aliases
                     THEN Did("alias", <<alias>>, "input_error",
                              Quoted(alias) \o " is not an alias", <<>>)
                     ELSE Did("alias", <<alias>>, "ok", "",
                              <<Event("print", alias, aliases[alias], "")>>)
        IN  /\ Returns
            /\ last' = [shown EXCEPT !.after = last.after]
    /\ UNCHANGED <<aliases, languages, dbTables, dbAliases, dbLanguages, dbJargon,
                   tioLanguages, listRequests>>

\* help, an empty line, and what matches no command
Other ==
    /\ session = "prompt"
    /\ \E typed \in TypedOthers :
        LET choice == Strip(Lower(typed))
        IN  IF choice = "help"
            THEN /\ Returns
                 /\ last' = Did("help", <<choice>>, "ok", "",
                                <<Event("print_help", "", "", "")>>)
                 /\ UNCHANGED <<aliases, languages, dbTables, dbAliases, dbLanguages,
                                dbJargon, listRequests>>
            ELSE IF choice = ""
            THEN /\ Returns
                 /\ last' = Did("", <<choice>>, "ok", "", <<>>)
                 /\ UNCHANGED <<aliases, languages, dbTables, dbAliases, dbLanguages,
                                dbJargon, listRequests>>
            ELSE InputError("", <<choice>>, "Invalid input. Enter help for help.", <<>>)
    /\ UNCHANGED tioLanguages

\* exit (sys.exit(0)), or a keyboard interrupt at the prompt
Exit ==
    /\ session = "prompt"
    /\ ProcessEnds
    /\ last' = Did("exit", <<>>, "ok", "", <<>>)
    /\ UNCHANGED <<dbTables, dbAliases, dbLanguages, dbJargon, tioLanguages,
                   listRequests>>

\* amain's loop comes back to input(): the next prompt is shown
Prompt ==
    /\ session = "done"
    /\ session' = "prompt"
    /\ last' = [Idle EXCEPT !.after = IF last.cmd = "delete alias" /\ last.status = "ok"
                                      THEN last.args[1] ELSE ""]
    /\ UNCHANGED <<aliases, languages, dbTables, dbAliases, dbLanguages, dbJargon,
                   tioLanguages, listRequests>>

\* The collaborator changes the list of languages it supports.
BackendChanges ==
    /\ tioLanguages' \in BackendLists \ {tioLanguages}
    /\ UNCHANGED <<session, aliases, languages, dbTables, dbAliases, dbLanguages,
                   dbJargon, listRequests, last>>

Next ==
    \/ load_aliases
    \/ load_languages
    \/ init_jargon
    \/ Run
    \/ CreateJargon
    \/ DeleteJargon
    \/ CreateAlias
    \/ DeleteAlias
    \/ List
    \/ Jargon
    \/ Alias
    \/ Other
    \/ Exit
    \/ Prompt
    \/ BackendChanges

Spec == Init /\ [][Next]_vars

\* A store left by earlier sessions: the tables were created when the
\* collaborator reported `first`, and delete alias has since removed every
\* default alias but those of `kept`, each with its row of languages and jargon
StoredAliasNames == {"c", "cpp", "java", "py", "js", "swift"}

StoredAfter(first, kept) ==
    /\ dbTables = {"aliases", "languages", "jargon"}
    /\ dbAliases = [a \in kept |-> default_aliases[a]]
    /\ dbLanguages = first \cup kept
    /\ dbJargon = [l \in DOMAIN get_default_jargon \
                         (DOMAIN default_aliases \ kept) |-> get_default_jargon[l]]

InitStored ==
    /\ session = "off"
    /\ aliases = EmptyDict
    /\ languages = <<>>
    /\ tioLanguages \in BackendLists
    /\ listRequests = 0
    /\ last = Idle
    /\ \/ /\ dbTables = {}
          /\ dbAliases = EmptyDict
          /\ dbLanguages = {}
          /\ dbJargon = [x \in {} |-> CJargon]
       \/ \E first \in BackendLists, kept \in SUBSET StoredAliasNames :
            StoredAfter(first, kept)

\* Sessions that start and exit
NextStored ==
    \/ load_aliases
    \/ load_languages
    \/ init_jargon
    \/ Exit

SpecStored == InitStored /\ [][NextStored]_vars

\* What get_lines() may hand to unwrap_code_block: an opening, the code, a
\* closing fence or none, and what follows it
Statements ==
    {open \o body \o close \o tail :
        open \in {"", FENCE, FENCE \o "\n", "py "},
        body \in {"", "code line", "code line\n", "a\nb\n\n"},
        close \in {"", FENCE},
        tail \in {"", "trailing", "\n1 2"}}

InitUnwrap ==
    /\ session = "code"
    /\ aliases = EmptyDict
    /\ languages = <<>>
    /\ dbTables = {}
    /\ dbAliases = EmptyDict
    /\ dbLanguages = {}
    /\ dbJargon = [x \in {} |-> CJargon]
    /\ tioLanguages = BaseLanguages
    /\ listRequests = 0
    /\ \E statement \in Statements :
          last = Did("get_lines", <<statement>>, "ok", "", <<>>)

\* unwrap_code_block is applied to the statement
Unwrap ==
    /\ session = "code"
    /\ session' = "unwrapped"
    /\ LET u == unwrap_code_block(last.args[1])
       IN  last' = Did("unwrap_code_block", last.args, "ok", "",
                       <<Event("return", u[1], u[2], "")>>)
    /\ UNCHANGED <<aliases, languages, dbTables, dbAliases, dbLanguages, dbJargon,
                   tioLanguages, listRequests>>

SpecUnwrap == InitUnwrap /\ [][Unwrap]_vars

\* The stores load_jargon may be called on: the tables amain has created so
\* far, and in table jargon the default entries the user has not deleted, with
\* or without an entry of zz
StartedTables ==
    {{}, {"aliases"}, {"aliases", "languages"}, {"aliases", "languages", "jargon"}}

DeletedJargon == SUBSET {"c", "c-clang", "rust"}

LoadedIds == {"c", "c-clang", "rust", "go", "zz", "nope"}

InitLoadJargon ==
    /\ session = "call"
    /\ aliases = EmptyDict
    /\ languages = <<>>
    /\ tioLanguages = BaseLanguages
    /\ listRequests = 0
    /\ dbTables \in StartedTables
    /\ dbAliases = IF "aliases" \in dbTables THEN default_aliases ELSE EmptyDict
    /\ dbLanguages = IF "languages" \in dbTables
                     THEN BaseLanguages \cup DOMAIN default_aliases ELSE {}
    /\ IF "jargon" \in dbTables
       THEN \E gone \in DeletedJargon, entered \in {{}, {"zz"}} :
               dbJargon = [l \in (DOMAIN get_default_jargon \ gone) \cup entered |->
                              IF l \in entered
                              THEN [jargon_text |-> "HEADER\nINSERT_HERE\nFOOTER",
                                    jargon_key |-> "ENTRY("]
                              ELSE get_default_jargon[l]]
       ELSE dbJargon = [x \in {} |-> CJargon]
    /\ \E language \in LoadedIds : last = Did("call", <<language>>, "ok", "", <<>>)

\* load_jargon(language) is called
LoadJargon ==
    /\ session = "call"
    /\ LET r == load_jargon_call(last.args[1], dbTables, dbJargon)
       IN  IF r.raised # ""
           THEN /\ session' = "raised"
                /\ last' = Did("load_jargon", last.args, "crash", r.raised, <<>>)
           ELSE /\ session' = "returned"
                /\ last' = Did("load_jargon", last.args, "ok", "",
                               <<Event("return", r.value[1], r.value[2], "")>>)
    /\ UNCHANGED <<aliases, languages, dbTables, dbAliases, dbLanguages, dbJargon,
                   tioLanguages, listRequests>>

SpecLoadJargon == InitLoadJargon /\ [][LoadJargon]_vars

\* The code wrap_jargon may be given, for the identifiers of the default jargon
WrappedCode ==
    {"", "x();", "int main() { x(); }", "fn main() {}", "INSERT_HERE", "a\nb\n"}

InitWrap ==
    /\ session = "code"
    /\ aliases = EmptyDict
    /\ languages = <<>>
    /\ dbTables = {"jargon"}
    /\ dbAliases = EmptyDict
    /\ dbLanguages = {}
    /\ dbJargon = get_default_jargon
    /\ tioLanguages = BaseLanguages
    /\ listRequests = 0
    /\ \E language \in DOMAIN get_default_jargon, code \in WrappedCode :
          last = Did("get_lines", <<language, code>>, "ok", "", <<>>)

\* wrap_jargon is applied to the code
Wrap ==
    /\ session = "code"
    /\ session' = "wrapped"
    /\ last' = Did("wrap_jargon", last.args, "ok", "",
                   <<Event("wrap", last.args[1],
                           wrap_jargon(last.args[2], last.args[1], dbJargon), "")>>)
    /\ UNCHANGED <<aliases, languages, dbTables, dbAliases, dbLanguages, dbJargon,
                   tioLanguages, listRequests>>

\* wrap_jargon is applied to what it returned
WrapAgain ==
    /\ session = "wrapped"
    /\ session' = "wrapped again"
    /\ last' = Did("wrap_jargon", last.args, "ok", "",
                   last.events \o
                   <<Event("wrap", last.args[1],
                           wrap_jargon(last.events[1].b, last.args[1], dbJargon), "")>>)
    /\ UNCHANGED <<aliases, languages, dbTables, dbAliases, dbLanguages, dbJargon,
                   tioLanguages, listRequests>>

NextWrap ==
    \/ Wrap
    \/ WrapAgain

SpecWrap == InitWrap /\ [][NextWrap]_vars

----------------------------------------------------------------------------
(* Properties.                                                             *)

\* the positions in last.events of the events named ev, and the first of them
EventsNamed(ev) == {i \in DOMAIN last.events : last.events[i].ev = ev}
Ev(ev) == last.events[CHOOSE i \in EventsNamed(ev) : \A j \in EventsNamed(ev) : i <= j]

\* a session is past its start-up: at the prompt or just after a command
InSession == session \in {"prompt", "done"}

\* C1: once a session has started up, and after any commands, every key of
\* the in-memory aliases is in the in-memory languages, and every alias of
\* the persisted aliases table is in the persisted languages table.
C1_AliasKeysAreLanguages ==
    InSession =>
        /\ DOMAIN aliases \subseteq Range(languages)
        /\ DOMAIN dbAliases \subseteq dbLanguages

C1_Witness ==
    /\ session = "done"
    /\ last.cmd = "create alias" /\ last.status = "ok"
    /\ "zz" \in DOMAIN aliases /\ "zz" \in DOMAIN dbAliases

\* C2: a delete alias of a known alias removes it from the in-memory aliases
\* and languages and from the persisted aliases, languages and jargon, all
\* five or none: the command never ends with only some of them done.
C2_DeleteAliasIsAtomic ==
    (last.cmd = "delete alias" /\ last.status # "input_error") =>
        LET a == last.args[1]
        IN  /\ last.status = "ok"
            /\ session = "done"
            /\ a \notin DOMAIN aliases
            /\ a \notin Range(languages)
            /\ a \notin DOMAIN dbAliases
            /\ a \notin dbLanguages
            /\ a \notin DOMAIN dbJargon

C2_Witness ==
    /\ last.cmd = "delete alias" /\ last.status = "ok"
    /\ last.args = <<"c">>
    /\ "c-clang" \in DOMAIN dbJargon

\* C3: after every completed create alias and delete alias, accepted or
\* rejected, the in-memory aliases equal the rows of the persisted aliases.
C3_AliasesMirrorStore ==
    (session = "done" /\ last.cmd \in {"create alias", "delete alias"}) =>
        aliases = dbAliases

C3_Witness ==
    /\ session = "done"
    /\ last.cmd = "create alias" /\ last.status = "ok"
    /\ last.args = <<"zz", "c">>
    /\ aliases["zz"] = "c-clang"

\* C4: after every completed command that changes the registry (create
\* alias, delete alias, run) the in-memory languages are, as a set, the rows
\* of the persisted languages table.
C4_LanguagesMirrorStore ==
    (session = "done" /\ last.cmd \in {"create alias", "delete alias", "run"}
                      /\ last.status = "ok") =>
        Range(languages) = dbLanguages

\* the run just made called the collaborator's execute
Submitted == last.cmd = "run" /\ EventsNamed("execute") # {}

\* the one position of the event named ev, when there is exactly one
Once(ev) == Cardinality(EventsNamed(ev)) = 1
At(ev) == CHOOSE i \in EventsNamed(ev) : TRUE

\* the text of template with code put at its first INSERT_HERE, and at any
\* further one
Substituted(template, code) ==
    LET i == Find(template, INSERT_HERE)
    IN  SubSeq(template, 1, i - 1) \o code \o
        Replace(Drop(template, i + Len(INSERT_HERE) - 1), INSERT_HERE, code)

\* C5: in every run that reaches the collaborator the jargon is looked up
\* under the identifier as typed, then the code is wrapped, then the
\* identifier is resolved exactly once, then the resolved language and the
\* wrapped code are submitted. So for an alias without jargon of its own the
\* code goes out unwrapped even when its language has jargon, and for an
\* alias with jargon the code goes out wrapped in the alias's jargon, as the
\* alias's language.
C5_JargonThenResolveThenSubmit ==
    Submitted =>
        LET typed == last.args[1]
            code == Ev("get_lines").a
        IN  /\ Once("load_jargon") /\ Once("wrap") /\ Once("resolve") /\ Once("execute")
            /\ At("load_jargon") < At("wrap")
            /\ At("wrap") < At("resolve")
            /\ At("resolve") < At("execute")
            /\ Ev("load_jargon").a = typed
            /\ Ev("resolve").a = typed
            /\ Ev("execute").a = Ev("resolve").b
            /\ Ev("execute").b = Ev("wrap").b
            /\ (last.status = "ok" /\ typed \in DOMAIN aliases) =>
                /\ Ev("execute").a = aliases[typed]
                /\ typed \notin DOMAIN dbJargon => Ev("execute").b = code
                /\ (/\ typed \in DOMAIN dbJargon
                    /\ ~Contains(code, dbJargon[typed].jargon_key)) =>
                        Ev("execute").b = Substituted(dbJargon[typed].jargon_text, code)

C5_Witness ==
    /\ Submitted /\ last.status = "ok"
    /\ last.args = <<"zz", "x();">>
    /\ "zz" \in DOMAIN aliases /\ aliases["zz"] = "c-clang"
    /\ "zz" \in DOMAIN dbJargon /\ "c-clang" \in DOMAIN dbJargon
    /\ Ev("execute").a = "c-clang"
    /\ Ev("execute").b = "HEADER\nx();\nFOOTER"

\* C6: wrap returns the code unchanged when the identifier has no jargon,
\* unchanged when the stored key occurs in the code, and otherwise the stored
\* template with INSERT_HERE replaced by the code; HEADER/INSERT_HERE/FOOTER
\* with key ENTRY( takes x(); to HEADER/x();/FOOTER.
C6_WrapCases ==
    (last.cmd = "run" /\ EventsNamed("wrap") # {}) =>
        LET id == last.args[1]
            code == Ev("get_lines").a
            out == Ev("wrap").b
        IN  IF id \notin DOMAIN dbJargon THEN out = code
            ELSE IF Contains(code, dbJargon[id].jargon_key) THEN out = code
            ELSE /\ out = Substituted(dbJargon[id].jargon_text, code)
                 /\ (/\ dbJargon[id].jargon_text = "HEADER\nINSERT_HERE\nFOOTER"
                     /\ code = "x();") => out = "HEADER\nx();\nFOOTER"

C6_Witness ==
    /\ last.cmd = "run" /\ last.args = <<"zz", "ENTRY() { x(); }">>
    /\ "zz" \in DOMAIN dbJargon
    /\ dbJargon["zz"].jargon_key = "ENTRY("
    /\ Ev("wrap").b = "ENTRY() { x(); }"

\* C7: the language passed to the collaborator is the typed identifier when
\* that is no alias key, and the aliases mapping's target when it is one; the
\* resolution itself never fails (a run fails only in the collaborator).
C7_ResolveIsTotal ==
    /\ (Submitted /\ last.status = "ok") =>
            Ev("execute").a = IF last.args[1] \in DOMAIN aliases
                              THEN aliases[last.args[1]] ELSE last.args[1]
    /\ (last.cmd = "run" /\ last.status = "crash") =>
            last.msg \in {"tio.get_languages", "tio.execute"}

C7_Witness ==
    /\ Submitted /\ last.status = "ok"
    /\ last.args[1] = "c" /\ "c" \in DOMAIN aliases
    /\ Ev("execute").a = "c-clang"

\* C8: no alias's target is itself an alias key, in memory or in the store;
\* create alias takes a known language and stores an alias's target in its
\* place; so resolving twice is resolving once, and the language submitted is
\* never an alias key.
C8_TargetsAreNotAliases ==
    /\ \A a \in DOMAIN dbAliases : dbAliases[a] \notin DOMAIN dbAliases
    /\ InSession =>
        /\ \A a \in DOMAIN aliases : aliases[a] \notin DOMAIN aliases
        /\ \A x \in TypedIds \cup Range(languages) :
                resolve(resolve(x, aliases), aliases) = resolve(x, aliases)
    /\ (Submitted /\ last.status = "ok") => Ev("execute").a \notin DOMAIN aliases
    /\ (session = "done" /\ last.cmd = "create alias" /\ last.status = "ok") =>
        LET new_alias == last.args[1]
            typed == last.args[2]
        IN  /\ typed \in Range(languages)
            /\ aliases[new_alias] \notin DOMAIN aliases
            /\ typed \in DOMAIN aliases => aliases[new_alias] = aliases[typed]
            /\ typed \notin DOMAIN aliases => aliases[new_alias] = typed

C8_Witness ==
    /\ session = "done" /\ last.cmd = "create alias" /\ last.status = "ok"
    /\ last.args = <<"zz", "c">>
    /\ aliases["c"] = "c-clang" /\ aliases["zz"] = "c-clang"

\* C9: on a store without a languages table load_languages asks the
\* collaborator for its list, returns that list's union with the alias keys
\* (the 14 built-in ones: the store is fresh) and persists exactly that set;
\* on a store with the table it returns the persisted set and does not ask.
C9_LoadStep ==
    (session = "aliases" /\ session' = "languages") =>
        IF "languages" \notin dbTables
        THEN /\ listRequests' = listRequests + 1
             /\ Range(languages') = tioLanguages \cup DOMAIN aliases
             /\ DOMAIN aliases = DOMAIN default_aliases
             /\ Cardinality(DOMAIN aliases) = 14
             /\ "languages" \in dbTables'
             /\ dbLanguages' = Range(languages')
        ELSE /\ listRequests' = listRequests
             /\ Range(languages') = dbLanguages
             /\ dbLanguages' = dbLanguages

C9_BootstrapOnce == [][C9_LoadStep]_vars

C9_Witness ==
    /\ session = "languages"
    /\ last.cmd = "load_languages" /\ last.events = <<>>
    /\ listRequests = 1
    /\ Cardinality(DOMAIN aliases) = 15
    /\ Range(languages) = dbLanguages

\* C10, as the spec states it: the collaborator's list is requested at most
\* once on a store, and never while a persisted languages table exists, in
\* particular not by run.
C10_ListRequestedOnlyToBootstrap ==
    /\ listRequests <= 1
    /\ (last.cmd = "run" /\ "languages" \in dbTables) => EventsNamed("get_languages") = {}

\* C10, amended: load_languages requests the collaborator's list only when
\* no persisted languages table exists; every run of a known identifier with
\* code to run requests it once more, before it submits; nothing else does.
C10_RequestStep ==
    /\ listRequests' # listRequests =>
        /\ listRequests' = listRequests + 1
        /\ \/ session = "aliases" /\ "languages" \notin dbTables
           \/ /\ session = "prompt" /\ last'.cmd = "run"
              /\ last'.args[1] \in Range(languages)
              /\ last'.status # "input_error"
    /\ (session = "aliases" /\ "languages" \in dbTables) => listRequests' = listRequests
    /\ (session = "prompt" /\ session' # "prompt" /\ last'.cmd = "run"
            /\ last'.status # "input_error") =>
        /\ listRequests' = listRequests + 1
        /\ \E i \in DOMAIN last'.events : last'.events[i].ev = "get_languages"

C10_RequestsAtBootstrapAndRun == [][C10_RequestStep]_vars

C10_Witness ==
    /\ Submitted /\ last.status = "ok"
    /\ "languages" \in dbTables
    /\ EventsNamed("get_languages") # {}
    /\ listRequests = 2

\* C11: load_aliases does not fail on a missing or an empty table. When the
\* table is missing it is created with the 14 built-in aliases, which are
\* returned; when the table exists and is empty the empty mapping is returned
\* and the table is not seeded again.
C11_LoadAliasesStep ==
    (session = "off" /\ session' = "aliases") =>
        /\ last'.cmd = "load_aliases" /\ last'.status = "ok"
        /\ "aliases" \notin dbTables =>
              /\ "aliases" \in dbTables'
              /\ dbAliases' = default_aliases
              /\ aliases' = default_aliases
              /\ Cardinality(DOMAIN aliases') = 14
        /\ ("aliases" \in dbTables /\ DOMAIN dbAliases = {}) =>
              /\ aliases' = EmptyDict
              /\ DOMAIN dbAliases' = {}
              /\ dbTables' = dbTables

C11_LoadAliasesSeedsOnlyMissingTable == [][C11_LoadAliasesStep]_vars

\* load_aliases has returned the empty mapping from an empty table
C11_Witness ==
    /\ session = "aliases"
    /\ last.cmd = "load_aliases" /\ last.status = "ok" /\ last.events = <<>>
    /\ "aliases" \in dbTables
    /\ DOMAIN dbAliases = {}
    /\ DOMAIN aliases = {}

\* C12 as stated: after `delete alias <name>` has succeeded, `alias <name>`
\* fails with the "not an alias" error and `jargon <name>` fails with the
\* "no jargon set" error.
C12_DeletedNameIsNotAnAlias ==
    (last.after # "" /\ last.args = <<last.after>>) =>
        /\ last.cmd = "alias" =>
              /\ last.status = "input_error"
              /\ last.msg = Quoted(last.after) \o " is not an alias"
        /\ last.cmd = "jargon" =>
              /\ last.status = "input_error"
              /\ last.msg = "No jargon wrapping has been set for the " \o
                            Quoted(last.after) \o " language"

\* C12 (amended): a successful `delete alias <name>` leaves <name> unknown as a
\* language, as an alias and as a jargon identifier, and `alias <name>` or
\* `jargon <name>` entered next fails with the "Invalid language" error, as
\* both commands do for every name that is not in the list of languages.
C12_DeletedNameIsInvalid ==
    /\ (last.cmd = "delete alias" /\ last.status = "ok") =>
          /\ last.args[1] \notin Range(languages)
          /\ last.args[1] \notin DOMAIN aliases
          /\ last.args[1] \notin DOMAIN dbJargon
    /\ (last.cmd \in {"alias", "jargon"} /\ last.after # ""
            /\ last.args = <<last.after>>) =>
          /\ last.status = "input_error"
          /\ last.msg = "Invalid language: " \o Quoted(last.after)
    /\ (last.cmd \in {"alias", "jargon"} /\ last.args[1] \notin Range(languages)) =>
          /\ last.status = "input_error"
          /\ last.msg = "Invalid language: " \o Quoted(last.args[1])

\* `alias c` has been answered right after `delete alias c` succeeded
C12_Witness ==
    /\ last.cmd = "alias" /\ last.after = "c" /\ last.args = <<"c">>
    /\ last.status = "input_error"
    /\ session = "done"

\* C13: `create alias <new> <language>` with <new> a language that is not an
\* alias is rejected with a user error and changes neither the in-memory
\* copies nor the store; and the name of every alias a command creates is, when
\* it is created, not a language the collaborator reports.
C13_CreateAliasStep ==
    (session = "prompt" /\ last'.cmd = "create alias") =>
        /\ (last'.args[1] \in Range(languages) \ DOMAIN aliases) =>
              /\ last'.status = "input_error"
              /\ last'.msg = Quoted(last'.args[1]) \o " is already a language."
              /\ UNCHANGED <<aliases, languages, dbTables, dbAliases, dbLanguages,
                             dbJargon>>
        /\ last'.status = "ok" => last'.args[1] \notin tioLanguages

C13_AliasNamesAreNotLanguages == [][C13_CreateAliasStep]_vars

\* C14: `create alias <new> <language>` with <new> an alias of another language
\* asks whether to overwrite. After the answer y or yes the command completes
\* and <new> is an alias of the new language in memory and in the store; after
\* any other answer it is cancelled and the alias keeps its language.
C14_OverwriteFollowsAnswer ==
    (last.cmd = "create alias" /\ Len(last.args) = 3) =>
        IF last.args[3] \in {"y", "yes"}
        THEN /\ last.status = "ok"
             /\ last.args[1] \in DOMAIN aliases \cap DOMAIN dbAliases
             /\ aliases[last.args[1]] = dbAliases[last.args[1]]
             /\ aliases[last.args[1]] \in
                    {last.args[2], alias_target(last.args[2], aliases)}
        ELSE /\ last.status = "input_error"
             /\ last.msg = "Cancelled creating an alias."
             /\ last.args[1] \in DOMAIN aliases
             /\ aliases[last.args[1]] # last.args[2]

\* C15: a `create jargon <id>` whose jargon has no INSERT_HERE, or whose key is
\* empty, ends in a user error and leaves the jargon table as it was before the
\* command, whether or not <id> had jargon.
C15_MalformedStep ==
    (session = "prompt" /\ last'.cmd = "create jargon" /\ Len(last'.args) >= 3
        /\ create_jargon_error([jargon_text |-> last'.args[2],
                                jargon_key |-> last'.args[3]]) # "") =>
        /\ last'.status = "input_error"
        /\ dbJargon' = dbJargon

C15_MalformedJargonChangesNothing == [][C15_MalformedStep]_vars

\* s.count(sub): the occurrences of sub in s that do not overlap
RECURSIVE Count(_, _)
Count(s, sub) ==
    LET i == Find(s, sub)
    IN  IF i = 0 THEN 0 ELSE 1 + Count(Drop(s, i + Len(sub) - 1), sub)

\* C16 as stated: every jargon in the jargon table, seeded or entered by the
\* user, contains INSERT_HERE exactly once, and every stored key is non-empty.
C16_MarkerExactlyOnce ==
    \A l \in DOMAIN dbJargon :
        /\ Count(dbJargon[l].jargon_text, INSERT_HERE) = 1
        /\ dbJargon[l].jargon_key # ""

\* C16 (amended): every jargon in the jargon table contains INSERT_HERE at
\* least once, the seeded ones exactly once, and every stored key is non-empty.
\* The table starts empty, so it is enough that every step stores only such
\* entries.
C16_StoreStep ==
    \A l \in DOMAIN dbJargon' :
        \/ l \in DOMAIN dbJargon /\ dbJargon'[l] = dbJargon[l]
        \/ /\ Contains(dbJargon'[l].jargon_text, INSERT_HERE)
           /\ dbJargon'[l].jargon_key # ""
           /\ (session = "languages" =>
                  Count(dbJargon'[l].jargon_text, INSERT_HERE) = 1)

C16_MarkerAtLeastOnce == [][C16_StoreStep]_vars

\* create jargon has stored a jargon with two INSERT_HERE
C16_Witness ==
    /\ last.cmd = "create jargon" /\ last.status = "ok"
    /\ last.args[1] \in DOMAIN dbJargon
    /\ dbJargon[last.args[1]].jargon_text = last.args[2]
    /\ Count(last.args[2], INSERT_HERE) = 2

\* C17: the jargon table has at most one entry for an identifier (UNIQUE
\* (language): a row is inserted only where there is none, after the old one
\* was deleted), and the entry of an identifier is replaced only by a
\* create jargon whose overwrite question the user answered with yes; when
\* the user does not, the command ends in a user error and the entry is as it
\* was.
C17_ReplaceStep ==
    /\ \A l \in DOMAIN dbJargon \cap DOMAIN dbJargon' :
          dbJargon'[l] # dbJargon[l] =>
              /\ last'.cmd = "create jargon" /\ last'.status = "ok"
              /\ Len(last'.args) = 4 /\ last'.args[1] = l
              /\ last'.args[4] \in {"y", "yes", " Y"}
              /\ last'.events = <<Event("delete_jargon", l, "", "")>>
    /\ (session = "prompt" /\ last'.cmd = "create jargon"
            /\ Len(last'.args) \in {2, 4}
            /\ last'.args[Len(last'.args)] \notin {"y", "yes", " Y"}) =>
          /\ last'.status = "input_error"
          /\ last'.msg = "Cancelled creating jargon."
          /\ dbJargon' = dbJargon
    /\ (session = "prompt" /\ last'.cmd = "create jargon" /\ last'.status = "ok"
            /\ last'.args[1] \in DOMAIN dbJargon) =>
          EventsNamed("delete_jargon")' # {}

C17_OverwriteOnlyWhenConfirmed == [][C17_ReplaceStep]_vars

\* the jargon of c has been replaced after the answer y
C17_Witness ==
    /\ last.cmd = "create jargon" /\ last.status = "ok"
    /\ last.args = <<"c", "HEADER\nINSERT_HERE\nFOOTER", "ENTRY(", "y">>
    /\ dbJargon["c"] = [jargon_text |-> "HEADER\nINSERT_HERE\nFOOTER",
                        jargon_key |-> "ENTRY("]

\* C18: after a successful create jargon of identifier id with jargon t and
\* key k, load_jargon(id) returns (t, k), and what load_jargon returns for an
\* identifier with jargon changes only by a delete jargon, by a create jargon
\* whose overwrite the user confirmed, or by a delete alias of that identifier.
C18_Loaded ==
    (last.cmd = "create jargon" /\ last.status = "ok") =>
        load_jargon(last.args[1], dbJargon) = <<last.args[2], last.args[3]>>

C18_KeepStep ==
    \A l \in DOMAIN dbJargon :
        load_jargon(l, dbJargon') # load_jargon(l, dbJargon) =>
            /\ last'.cmd \in {"delete jargon", "create jargon", "delete alias"}
            /\ last'.args[1] = l
            /\ last'.cmd = "create jargon" =>
                  Len(last'.args) = 4 /\ last'.args[4] \in {"y", "yes", " Y"}

C18_JargonRoundTrip == []C18_Loaded /\ [][C18_KeepStep]_vars

\* create jargon has stored the first jargon of zz, and load_jargon returns it
C18_Witness ==
    /\ last.cmd = "create jargon" /\ last.status = "ok"
    /\ last.args = <<"zz", "HEADER\nINSERT_HERE\nFOOTER", "ENTRY(">>
    /\ load_jargon("zz", dbJargon) = <<"HEADER\nINSERT_HERE\nFOOTER", "ENTRY(">>

\* the positions of the entries list printed, and the names printed
PrintedAt == DOMAIN last.out.entries

PrintedNames == {last.out.entries[i].name : i \in PrintedAt}

\* C19: `list` without a filter prints the count |languages| - |aliases|, that
\* count is the number of printed entries that are not aliases, and every
\* printed entry that is an alias is shown in the style of aliases.
C19_ListCountsLanguages ==
    (last.cmd = "list" /\ last.args[1] \in {"list", "ls"}) =>
        /\ last.out.count = Len(languages) - Cardinality(DOMAIN aliases)
        /\ last.out.count =
               Cardinality({i \in PrintedAt : last.out.entries[i].name \notin DOMAIN aliases})
        /\ \A i \in PrintedAt :
               last.out.entries[i].name \in DOMAIN aliases =>
                   last.out.entries[i].style = "alias"

\* `list` has printed languages and aliases, c among the aliases
C19_Witness ==
    /\ last.cmd = "list" /\ last.args = <<"list">>
    /\ last.out.count > 0
    /\ \E i \in PrintedAt : /\ last.out.entries[i].name = "c"
                            /\ last.out.entries[i].style = "alias"
    /\ \E i \in PrintedAt : last.out.entries[i].style = "plain"

\* the term typed after list or ls
ListTerm(choice) ==
    IF StartsWith(choice, "list ") THEN Strip(Drop(choice, 5)) ELSE Strip(Drop(choice, 3))

\* C20: `list <term>` and `ls <term>` print exactly the known languages and
\* aliases whose name contains <term>, and the printed count is the number of
\* names printed.
C20_ListTermPrintsMatches ==
    (last.cmd = "list" /\ last.args[1] \notin {"list", "ls"}) =>
        /\ PrintedNames =
               {n \in Range(languages) : Contains(n, ListTerm(last.args[1]))}
        /\ last.out.count = Len(last.out.entries)
        /\ last.out.count = Cardinality(PrintedNames)

\* C21: for a statement that starts with a fence and a newline, the code is
\* the text between that newline and the closing fence without one newline at
\* its end, and what follows the closing fence is the input of the program;
\* without a closing fence the input is empty; a statement that does not start
\* with a fence is returned as it is, with an empty input.
C21_UnwrapsFencedBlock ==
    session = "unwrapped" =>
        LET statement == last.args[1]
            code == last.events[1].a
            inputs == last.events[1].b
            rest == Drop(statement, 4)
        IN  /\ ~StartsWith(statement, FENCE) => code = statement /\ inputs = ""
            /\ StartsWith(statement, FENCE \o "\n") =>
                  \E nl \in {"", "\n"} :
                      /\ nl = "" => ~EndsWith(code, "\n")
                      /\ ~Contains(code \o nl, FENCE)
                      /\ IF Contains(rest, FENCE)
                         THEN rest = code \o nl \o FENCE \o inputs
                         ELSE rest = code \o nl /\ inputs = ""
            /\ statement = FENCE \o "\ncode line\n" \o FENCE \o "trailing" =>
                  code = "code line" /\ inputs = "trailing"

\* the statement of the example has been unwrapped
C21_Witness ==
    /\ session = "unwrapped"
    /\ last.args = <<FENCE \o "\ncode line\n" \o FENCE \o "trailing">>
    /\ last.events = <<Event("return", "code line", "trailing", "")>>

\* C22: every error of the user's input (a name that is no language, no alias,
\* already an alias, already a language, without jargon, an overwrite of jargon
\* not confirmed, a malformed jargon, a line that is no command) is caught by
\* the loop of amain, which shows the message and prompts again: the session
\* goes on and the in-memory languages and aliases are as before the command.
C22_InputErrorStep ==
    (session = "prompt" /\ last'.status = "input_error") =>
        /\ session' = "done"
        /\ last'.msg # ""
        /\ UNCHANGED <<aliases, languages>>

C22_PromptsAgain == last.status = "input_error" => ENABLED Prompt

C22_InputErrorsAreCaught == []C22_PromptsAgain /\ [][C22_InputErrorStep]_vars

\* a line that is no command has been answered with the error, in a session
\* that goes on
C22_Witness ==
    /\ last.cmd = "" /\ last.args = <<"lst c">>
    /\ last.status = "input_error"
    /\ last.msg = "Invalid input. Enter help for help."
    /\ session = "done"
    /\ "c" \in DOMAIN aliases

\* C23: a failure of the collaborator during run is not swallowed by get_code
\* or run_code and reaches the handler of amain's loop, as the errors of the
\* user's input do: the session goes on and the loop prompts again.
C23_CollaboratorFailureIsCaught ==
    (last.cmd = "run" /\ last.msg \in {"tio.get_languages", "tio.execute"}) =>
        /\ last.status # "ok"
        /\ session = "done"
        /\ ENABLED Prompt

\* C24: `run <id>` with an id that is not in the list of languages ends in a
\* user error and nothing is submitted to the collaborator; whenever code is
\* submitted, the typed id was found in the session's list of languages
\* earlier in the same command.
C24_RunStep ==
    (session = "prompt" /\ last' # last) =>
        /\ (last'.cmd = "run" /\ last'.args[1] \notin Range(languages)) =>
              /\ last'.status = "input_error"
              /\ last'.msg = "Invalid language: " \o Quoted(last'.args[1])
              /\ last'.events = <<>>
              /\ session' = "done"
        /\ EventsNamed("execute")' # {} =>
              /\ last'.cmd = "run"
              /\ last'.args[1] \in Range(languages)

C25_JargonStep ==
    (session = "prompt" /\ last'.cmd \in {"jargon", "delete jargon"}
        /\ last'.args[1] \in Range(languages)) =>
        LET id == last'.args[1]
        IN  /\ id \notin DOMAIN dbJargon =>
                  /\ last'.status = "input_error"
                  /\ last'.msg \in
                         {"No jargon wrapping has been set for the " \o Quoted(id)
                              \o " language",
                          Quoted(id) \o " has no jargon"}
                  /\ UNCHANGED <<aliases, languages, dbTables, dbAliases,
                                 dbLanguages, dbJargon>>
            /\ (id \in DOMAIN dbJargon /\ last'.cmd = "delete jargon") =>
                  /\ last'.status = "ok"
                  /\ DOMAIN dbJargon' = DOMAIN dbJargon \ {id}
                  /\ \A l \in DOMAIN dbJargon' : dbJargon'[l] = dbJargon[l]
                  /\ UNCHANGED <<aliases, languages, dbTables, dbAliases,
                                 dbLanguages>>

C25_DeleteJargonRemovesOneEntry == [][C25_JargonStep]_vars

\* delete jargon c has removed that entry and left that of c-clang
C25_Witness ==
    /\ last.cmd = "delete jargon" /\ last.args = <<"c">> /\ last.status = "ok"
    /\ "c" \notin DOMAIN dbJargon
    /\ "c-clang" \in DOMAIN dbJargon
    /\ "c" \in DOMAIN aliases /\ "c" \in Range(languages)

C26_LoadStep ==
    (session = "call" /\ session' # "call") =>
        /\ UNCHANGED <<dbTables, dbAliases, dbLanguages, dbJargon>>
        /\ IF "jargon" \notin dbTables
           THEN /\ last'.status = "crash"
                /\ last'.msg = "sqlite3.OperationalError"
           ELSE /\ last'.status = "ok"
                /\ last'.events =
                       IF last.args[1] \in DOMAIN dbJargon
                       THEN <<Event("return", dbJargon[last.args[1]].jargon_text,
                                    dbJargon[last.args[1]].jargon_key, "")>>
                       ELSE <<Event("return", "", "", "")>>

C27_CreateAliasInsertsSucceed ==
    (last.cmd = "create alias" /\ EventsNamed("set") # {}) =>
        /\ last.status = "ok"
        /\ last.msg # "sqlite3.IntegrityError"
        /\ last.args[1] \in DOMAIN dbAliases
        /\ last.args[1] \in dbLanguages

\* C28: `run <id>` with empty code, for a known id with or without jargon,
\* ends in the user error "no code was given to run" and the collaborator is
\* not called.
C28_EmptyCodeStep ==
    (session = "prompt" /\ last'.cmd = "run"
        /\ last'.args[1] \in Range(languages) /\ last'.args[2] = "") =>
        /\ last'.status = "input_error"
        /\ last'.msg = "Error: no code was given to run."
        /\ EventsNamed("get_languages")' = {}
        /\ EventsNamed("execute")' = {}

C28_EmptyCodeIsRejected == [][C28_EmptyCodeStep]_vars

\* C29: `delete alias <a>` changes only what is named a: every other alias
\* (those of the same language too), every other language and every jargon
\* entry of another identifier (that of the language a stood for too) is as
\* before, in memory and in the store.
C29_DeleteAliasStep ==
    (session = "prompt" /\ last'.cmd = "delete alias" /\ last'.status = "ok") =>
        LET a == last'.args[1]
        IN  /\ DOMAIN aliases' = DOMAIN aliases \ {a}
            /\ \A x \in DOMAIN aliases' : aliases'[x] = aliases[x]
            /\ DOMAIN dbAliases' = DOMAIN dbAliases \ {a}
            /\ \A x \in DOMAIN dbAliases' : dbAliases'[x] = dbAliases[x]
            /\ languages' = SelectSeq(languages, LAMBDA x : x # a)
            /\ dbLanguages' = dbLanguages \ {a}
            /\ DOMAIN dbJargon' = DOMAIN dbJargon \ {a}
            /\ \A x \in DOMAIN dbJargon' : dbJargon'[x] = dbJargon[x]
            /\ UNCHANGED dbTables

C29_DeleteAliasTouchesOneName == [][C29_DeleteAliasStep]_vars

\* delete alias c has left zz, another alias of c-clang, and the jargon of
\* c-clang
C29_Witness ==
    /\ last.cmd = "delete alias" /\ last.args = <<"c">> /\ last.status = "ok"
    /\ "c" \notin DOMAIN aliases
    /\ "zz" \in DOMAIN aliases /\ aliases["zz"] = "c-clang"
    /\ "zz" \in DOMAIN dbAliases /\ dbAliases["zz"] = "c-clang"
    /\ "c-clang" \in DOMAIN dbJargon
    /\ "c" \notin DOMAIN dbJargon

\* C30: the default jargon is seeded at most once in a store: init_jargon
\* creates and seeds table jargon only when there is none, and the table stays,
\* so in a later session a default entry the user deleted is not back and one
\* the user overwrote has the user's jargon and key.
C30_InitJargonStep ==
    /\ "jargon" \in dbTables => "jargon" \in dbTables'
    /\ (session = "languages" /\ session' = "prompt") =>
          IF "jargon" \in dbTables
          THEN /\ dbJargon' = dbJargon
               /\ EventsNamed("create_table")' = {}
          ELSE /\ dbJargon' = get_default_jargon
               /\ "jargon" \in dbTables'

C30_DefaultJargonSeededOnce == [][C30_InitJargonStep]_vars

\* a later session has started on a store where the user deleted the default
\* jargon of c: init_jargon has not brought it back
C30_Witness ==
    /\ session = "prompt"
    /\ last.cmd = "init_jargon" /\ last.events = <<>>
    /\ "c" \notin DOMAIN dbJargon
    /\ "c" \in DOMAIN aliases
    /\ "c-clang" \in DOMAIN dbJargon

\* C31: the jargon of every default entry contains the key of that entry, so
\* wrapping is idempotent on the defaults: for every code and every identifier
\* of the default jargon, wrapping what wrap returned returns it unchanged.
C31_WrapIsIdempotentOnDefaults ==
    /\ \A l \in DOMAIN get_default_jargon :
          Contains(get_default_jargon[l].jargon_text, get_default_jargon[l].jargon_key)
    /\ session = "wrapped again" =>
          /\ Len(last.events) = 2
          /\ last.events[2].b = last.events[1].b
          /\ Contains(last.events[1].b, dbJargon[last.args[1]].jargon_key)

\* x(); has been wrapped in the jargon of rust, and wrapping that again has
\* returned it unchanged
C31_Witness ==
    /\ session = "wrapped again"
    /\ last.args = <<"rust", "x();">>
    /\ last.events[1].b = "fn main() {\n    x();\n}                "
    /\ last.events[2].b = last.events[1].b

====
